---- MODULE Spec2Model ----
(***************************************************************************)
(* Model of the demo kit: the toy Express service (app.js) with its leak   *)
(* store, and trigger-issue.sh, the script that looks the service up and   *)
(* fires requests at it.  The service is one Node process: a handler runs  *)
(* to completion before the next one starts, so each handler is one step.  *)
(* memoryLeakArray is modelled by its length; its entries are never read.  *)
(***************************************************************************)
EXTENDS Integers, FiniteSets, Sequences, TLC

\* ---- program constants -------------------------------------------------
\* app.js:14   for (let i = 0; i < 100000; i++)
LeakIterations == 100000
\* trigger-issue.sh:49   for i in {1..10}
NumLeakRequests == 10

\* ---- bounds --------------------------------------------------------------
\* requests sent by clients other than trigger-issue.sh (browser, setup-demo.sh)
MaxOtherRequests == 2

\* ---- input domains -------------------------------------------------------
\* exit statuses of a gcloud call: 0 success, 1 API error (service not found),
\* 2 usage error
GcloudExitCodes == {0, 1, 2}
\* what `gcloud run services describe --format value(status.url)` prints
DescribeOutputs == {"", "url"}
\* exit statuses of curl -s: 0 a response was received (whatever its HTTP
\* status), 7 the connection failed
CurlExitCodes == {0, 7}

\* what a background curl is doing: its request is on the way, the service
\* has answered it, or the curl has ended
Running == {"pending", "handled"}
JobStates == Running \cup {"exited"}

VARIABLES
  memoryLeakArray,  \* app.js: length of the leak store
  handledLeak,      \* history: runs of the /leak handler
  handledRoot,      \* history: runs of the / handler
  pc,               \* trigger-issue.sh: the line the script is at
  SERVICE_URL,      \* trigger-issue.sh: "unset" before line 25
  describeRc,       \* exit status of the describe call, -1 before it ran
  exitStatus,       \* exit status of the script, -1 while it runs
  printed,          \* messages the script has echoed
  fg,               \* the foreground curl of line 40 / 68
  rootSent,         \* GET / requests the script has sent
  i,                \* loop counter of line 49 = background curls launched
  jobs,             \* the background curls of line 51: how many are in each
                    \* state (they run the same command, so the job table is
                    \* kept up to the order of its entries)
  othersSent        \* requests sent by other clients

vars == <<memoryLeakArray, handledLeak, handledRoot, pc, SERVICE_URL, describeRc,
          exitStatus, printed, fg, rootSent, i, jobs, othersSent>>

server == <<memoryLeakArray, handledLeak, handledRoot>>
script == <<pc, SERVICE_URL, describeRc, exitStatus, printed, rootSent, i>>

\* ---- app.js --------------------------------------------------------------

\* app.get('/'): sends the greeting, touches nothing
RootHandler(arr) == arr

\* the loop of app.get('/leak'): for (let i = 0; i < 100000; i++) runs its
\* body, one push, for i = 0 .. LeakIterations - 1
LeakLoopOffByOne(arr) == arr + Cardinality(0..LeakIterations)
LeakLoop(arr) == arr + Cardinality(0..(LeakIterations - 1))

\* app.get('/leak'): the loop, then the response
LeakHandler(arr) == LeakLoop(arr)

Init ==
  /\ memoryLeakArray = 0
  /\ handledLeak = 0
  /\ handledRoot = 0
  /\ pc = "l17"
  /\ SERVICE_URL = "unset"
  /\ describeRc = -1
  /\ exitStatus = -1
  /\ printed = {}
  /\ fg = "none"
  /\ rootSent = 0
  /\ i = 0
  /\ jobs = [s \in JobStates |-> 0]
  /\ othersSent = 0

\* the service handles the script's foreground GET /
ServeRootFg ==
  /\ fg = "pending"
  /\ fg' = "handled"
  /\ memoryLeakArray' = RootHandler(memoryLeakArray)
  /\ handledRoot' = handledRoot + 1
  /\ UNCHANGED <<handledLeak, script, jobs, othersSent>>

\* one job moves from state a to state b
Move(a, b) == [jobs EXCEPT ![a] = @ - 1, ![b] = @ + 1]

\* the service handles the GET /leak of one background curl
ServeLeakJob ==
  /\ jobs["pending"] > 0
  /\ jobs' = Move("pending", "handled")
  /\ memoryLeakArray' = LeakHandler(memoryLeakArray)
  /\ handledLeak' = handledLeak + 1
  /\ UNCHANGED <<handledRoot, script, fg, othersSent>>

\* another client's GET /
OtherGetRoot ==
  /\ othersSent < MaxOtherRequests
  /\ othersSent' = othersSent + 1
  /\ memoryLeakArray' = RootHandler(memoryLeakArray)
  /\ handledRoot' = handledRoot + 1
  /\ UNCHANGED <<handledLeak, script, fg, jobs>>

\* another client's GET /leak
OtherGetLeak ==
  /\ othersSent < MaxOtherRequests
  /\ othersSent' = othersSent + 1
  /\ memoryLeakArray' = LeakHandler(memoryLeakArray)
  /\ handledLeak' = handledLeak + 1
  /\ UNCHANGED <<handledRoot, script, fg, jobs>>

\* ---- trigger-issue.sh ------------------------------------------------------

\* set -e: the script ends with the status of the command that failed
Exit(rc) ==
  /\ pc' = "exited"
  /\ exitStatus' = rc

\* line 17: PROJECT_ID from the environment, else from gcloud config
ResolveProject ==
  /\ pc = "l17"
  /\ \E envSet \in BOOLEAN, rc \in GcloudExitCodes :
       IF envSet \/ rc = 0
         THEN pc' = "l25" /\ UNCHANGED exitStatus
         ELSE Exit(rc)
  /\ UNCHANGED <<server, SERVICE_URL, describeRc, printed, fg, rootSent, i, jobs, othersSent>>

\* lines 25-27: SERVICE_URL=$(gcloud run services describe ... 2>/dev/null);
\* the assignment has the status of the substitution, and set -e acts on it
DescribeService ==
  /\ pc = "l25"
  /\ \E rc \in GcloudExitCodes, out \in DescribeOutputs :
       /\ SERVICE_URL' = out
       /\ describeRc' = rc
       /\ IF rc # 0 THEN Exit(rc) ELSE pc' = "l29" /\ UNCHANGED exitStatus
  /\ UNCHANGED <<server, printed, fg, rootSent, i, jobs, othersSent>>

\* lines 29-35: if [ -z "$SERVICE_URL" ] ... exit 1
CheckServiceUrl ==
  /\ pc = "l29"
  /\ IF SERVICE_URL = ""
       THEN /\ printed' = printed \cup {"ErrorNotFound", "RunSetupFirst"}
            /\ Exit(1)
       ELSE /\ printed' = printed \cup {"ServiceURL"}
            /\ pc' = "l40"
            /\ UNCHANGED exitStatus
  /\ UNCHANGED <<server, SERVICE_URL, describeRc, fg, rootSent, i, jobs, othersSent>>

\* line 40: curl -s $SERVICE_URL, the request goes out
TestNormalSend ==
  /\ pc = "l40"
  /\ fg = "none"
  /\ fg' = "pending"
  /\ rootSent' = rootSent + 1
  /\ pc' = "l40curl"
  /\ UNCHANGED <<server, SERVICE_URL, describeRc, exitStatus, printed, i, jobs, othersSent>>

\* lines 40-41: the foreground curl ends; status 0 needs a response
TestNormalDone ==
  /\ pc = "l40curl"
  /\ \E rc \in CurlExitCodes :
       /\ rc = 0 => fg = "handled"
       /\ IF rc = 0
            THEN /\ printed' = printed \cup {"NormalOK"}
                 /\ pc' = "l49"
                 /\ UNCHANGED exitStatus
            ELSE /\ Exit(rc)
                 /\ UNCHANGED printed
  /\ fg' = "none"
  /\ UNCHANGED <<server, SERVICE_URL, describeRc, rootSent, i, jobs, othersSent>>

\* lines 49-52: one iteration, curl -s $SERVICE_URL/leak &
LaunchLeak ==
  /\ pc = "l49"
  /\ i < NumLeakRequests
  /\ i' = i + 1
  /\ jobs' = [jobs EXCEPT !["pending"] = @ + 1]
  /\ UNCHANGED <<server, pc, SERVICE_URL, describeRc, exitStatus, printed, fg, rootSent, othersSent>>

\* line 52: the loop is over
LoopDone ==
  /\ pc = "l49"
  /\ i = NumLeakRequests
  /\ pc' = "l56"
  /\ UNCHANGED <<server, SERVICE_URL, describeRc, exitStatus, printed, fg, rootSent, i, jobs, othersSent>>

\* a background curl ends: status 0 after a response, status 7 at any time;
\* nobody reads the status of a background job
CurlLeakExit ==
  /\ \E s \in Running, rc \in CurlExitCodes :
       /\ jobs[s] > 0
       /\ rc = 0 => s = "handled"
       /\ jobs' = Move(s, "exited")
  /\ UNCHANGED <<server, script, fg, othersSent>>

\* line 56: wait returns once every child has ended
Wait ==
  /\ pc = "l56"
  /\ \A s \in Running : jobs[s] = 0
  /\ pc' = "l59"
  /\ UNCHANGED <<server, SERVICE_URL, describeRc, exitStatus, printed, fg, rootSent, i, jobs, othersSent>>

\* lines 58-64: the report, then sleep 5
ReportTriggered ==
  /\ pc = "l59"
  /\ printed' = printed \cup {"LeakTriggered"}
  /\ pc' = "l68"
  /\ UNCHANGED <<server, SERVICE_URL, describeRc, exitStatus, fg, rootSent, i, jobs, othersSent>>

\* line 68: if curl -s --max-time 5 $SERVICE_URL, the request goes out
FinalCheckSend ==
  /\ pc = "l68"
  /\ fg = "none"
  /\ fg' = "pending"
  /\ rootSent' = rootSent + 1
  /\ pc' = "l68curl"
  /\ UNCHANGED <<server, SERVICE_URL, describeRc, exitStatus, printed, i, jobs, othersSent>>

\* lines 68-92: the curl is an if condition, so its failure does not end the
\* script; the remaining lines only echo
FinalCheckDone ==
  /\ pc = "l68curl"
  /\ \E rc \in CurlExitCodes :
       /\ rc = 0 => fg = "handled"
       /\ printed' = printed \cup {IF rc = 0 THEN "StillResponding" ELSE "Failing"}
  /\ fg' = "none"
  /\ Exit(0)
  /\ UNCHANGED <<server, SERVICE_URL, describeRc, rootSent, i, jobs, othersSent>>

Next ==
  \/ ServeRootFg
  \/ ServeLeakJob
  \/ OtherGetRoot
  \/ OtherGetLeak
  \/ ResolveProject
  \/ DescribeService
  \/ CheckServiceUrl
  \/ TestNormalSend
  \/ TestNormalDone
  \/ LaunchLeak
  \/ LoopDone
  \/ CurlLeakExit
  \/ Wait
  \/ ReportTriggered
  \/ FinalCheckSend
  \/ FinalCheckDone

Spec == Init /\ [][Next]_vars

TypeOK ==
  /\ memoryLeakArray \in Nat
  /\ handledLeak \in Nat
  /\ handledRoot \in Nat
  /\ pc \in {"l17", "l25", "l29", "l40", "l40curl", "l49", "l56", "l59", "l68",
             "l68curl", "exited"}
  /\ SERVICE_URL \in {"unset"} \cup DescribeOutputs
  /\ describeRc \in {-1} \cup GcloudExitCodes
  /\ exitStatus \in {-1} \cup GcloudExitCodes \cup CurlExitCodes
  /\ fg \in {"none", "pending", "handled"}
  /\ rootSent \in 0..2
  /\ i \in 0..NumLeakRequests
  /\ jobs \in [JobStates -> 0..NumLeakRequests]
  /\ jobs["pending"] + jobs["handled"] + jobs["exited"] = i
  /\ othersSent \in 0..MaxOtherRequests

\* ---- trigger-issue.sh: the service lookup -----------------------------------

\* the describe call of line 25 ran and did not produce a service: it exited
\* non-zero, or it printed no URL
LookupFailed == describeRc # -1 /\ (describeRc # 0 \/ SERVICE_URL = "")

\* the script has sent no request, neither to / nor to /leak
NoRequestSent == rootSent = 0 /\ i = 0 /\ fg = "none"

\* C9: when the lookup of the Cloud Run service 'cloud-assist-demo' fails (the
\* describe call fails or returns no URL), the script prints the error
\* "Cloud Run service 'cloud-assist-demo' not found" with the hint to run
\* ./setup-demo.sh first and exits with status 1, having sent no request to /
\* or /leak.
C9_NotFoundIsReported ==
  (pc = "exited" /\ LookupFailed) =>
     /\ {"ErrorNotFound", "RunSetupFirst"} \subseteq printed
     /\ exitStatus = 1
     /\ NoRequestSent

\* ---- app.js: the leak store -------------------------------------------------

\* C10: the leak store only grows: each handled GET /leak appends exactly
\* LeakIterations entries, GET / leaves the store unchanged, no step removes an
\* entry, so after n handled /leak requests and any number of / requests the
\* store holds exactly LeakIterations * n entries; and when trigger-issue.sh
\* reports the leak as triggered, all NumLeakRequests background requests it
\* launched have ended.
C10_LeakStoreOnlyGrows ==
  /\ [](memoryLeakArray = LeakIterations * handledLeak)
  /\ []("LeakTriggered" \in printed =>
          /\ i = NumLeakRequests
          /\ jobs["exited"] = NumLeakRequests
          /\ \A s \in Running : jobs[s] = 0)
  /\ [][/\ memoryLeakArray' >= memoryLeakArray
        /\ handledLeak' # handledLeak =>
              /\ handledLeak' = handledLeak + 1
              /\ memoryLeakArray' = memoryLeakArray + LeakIterations
        /\ handledRoot' # handledRoot => memoryLeakArray' = memoryLeakArray]_vars

\* the script has reported the leak after all of its requests and one of
\* another client were handled, among requests to / that were handled too
C10_Witness ==
  /\ "LeakTriggered" \in printed
  /\ handledLeak = NumLeakRequests + 1
  /\ handledRoot >= 2
  /\ memoryLeakArray = LeakIterations * (NumLeakRequests + 1)

====
